---- MODULE Spec2Model ----
(***************************************************************************)
(* BitArray<Block> (BitArray.hpp) and StaticBitArray<N,Block>              *)
(* (StaticBitArray.hpp): a bit array kept in fixed-width blocks, with a    *)
(* blockwise right rotate, an elementwise reference rotate and the         *)
(* left/right neighbour masks.                                             *)
(*                                                                         *)
(* A block is modelled as the set of the offsets of its one bits, a subset *)
(* of 0 .. bits_per_block-1: | is \cup, & is \cap, ~ is the complement in  *)
(* 0 .. bits_per_block-1, and a shift moves every offset and drops the     *)
(* offsets that leave the block (the block keeps its width).               *)
(*                                                                         *)
(* Block is a template parameter: Init picks the width of the              *)
(* instantiation, 8 bits (uint8_t) or 4 bits, which keeps arrays of three  *)
(* blocks small.                                                           *)
(***************************************************************************)
EXTENDS Integers, FiniteSets, Sequences, TLC

\* widths of Block the model instantiates the templates with
BlockWidths == {4, 8}

\* the width SpecMask instantiates them with
MaskWidths == {8}

\* the width SpecOps instantiates them with
OpsWidths == {4}

\* largest m_num_bits of the arrays of Spec and SpecMask
MaxBits == 9

\* largest m_num_bits of the arrays of SpecOps
MaxOpsBits == 5

\* largest m_count SpecOps lets set reach
MaxCount == 6

\* largest m_num_bits of the arrays of SpecLen
MaxLenBits == 5

\* largest m_count SpecEquiv lets set reach
MaxEquivCount == 3

\* largest m_num_bits of the arrays of SpecConc
MaxConcBits == 5

\* what a build makes of a shift by an amount outside 0 .. bits_per_block-1
\* (undefined behaviour): the amount is taken modulo the width (x86-64,
\* AArch64), or every bit is shifted out (ARM32, PowerPC)
ShiftOutcomes == {"modulo", "zero"}

VARIABLES
  bits_per_block,   \* std::numeric_limits<Block>::digits of the instantiation
  shift_ub,         \* the build's outcome of an out-of-range shift
  bitarr,           \* the source array (TestBitArray.cpp: bitarr, spikes_1)
  r1,               \* destination of the blockwise operations (bitarr_r1, shift_spikes)
  r2,               \* destination of the elementwise rotateRight (bitarr_r2)
  r3,               \* destination of a rotate whose source is r1
  call,             \* the calls of Spec and SpecMask that produced r1, r2 and r3
  only_transitions, \* r1 has seen only reset, set of a zero bit, clear of a one bit
  static_shift_ub,  \* the outcome of an out-of-range shift in StaticBitArray's code
  sarr,             \* a StaticBitArray driven by the calls that drive r1
  th,               \* the locals of the calls in progress, one call per thread
  aborted           \* an assert of a checked build has failed: the program is gone

vars == <<bits_per_block, shift_ub, bitarr, r1, r2, r3, call, only_transitions,
          static_shift_ub, sarr, th, aborted>>

----------------------------------------------------------------------------
(* Block arithmetic *)

\* ~static_cast<block_type>(0)
AllOnes == 0 .. bits_per_block - 1

\* ~block
Not(block) == AllOnes \ block

\* block << s.  s is a size_t: a negative s stands for the wrapped value
\* 2^64 + s.  bits_per_block divides 2^64, so "modulo" reduces both alike.
Shl(block, s) ==
  IF s \in AllOnes
    THEN {j + s : j \in block} \cap AllOnes
    ELSE IF shift_ub = "modulo"
           THEN {j + (s % bits_per_block) : j \in block} \cap AllOnes
           ELSE {}

\* block >> s
Shr(block, s) ==
  IF s \in AllOnes
    THEN {j - s : j \in block} \cap AllOnes
    ELSE IF shift_ub = "modulo"
           THEN {j - (s % bits_per_block) : j \in block} \cap AllOnes
           ELSE {}

\* a slip: the mask is left out
LowBitsUnmasked(block, nbits) == block

\* block & ~(~static_cast<block_type>(0) << nbits)
LowBits(block, nbits) == block \cap Not(Shl(AllOnes, nbits))

\* std::popcount(block)
popcount(block) == Cardinality(block)

block_index(pos) == pos \div bits_per_block
bit_index(pos) == pos % bits_per_block
bit_mask(pos) == {bit_index(pos)}

----------------------------------------------------------------------------
(* BitArray: construction, bit access, counting *)

\* explicit BitArray(std::size_t num_bits)
BitArray(num_bits) ==
  LET capacity == (num_bits - 1) \div bits_per_block + 1
  IN [m_bitset_capacity |-> capacity,
      m_num_bits        |-> num_bits,
      m_count           |-> 0,
      m_bits            |-> [i \in 0 .. capacity - 1 |-> {}]]

size(self) == self.m_num_bits

\* m_bits.size()
num_blocks(self) == Cardinality(DOMAIN self.m_bits)

\* a slip: m_count is incremented only when the bit was zero
setCounted(self, pos) ==
  [self EXCEPT !.m_bits[block_index(pos)] = @ \cup bit_mask(pos),
               !.m_count = IF bit_index(pos) \in self.m_bits[block_index(pos)]
                             THEN @ ELSE @ + 1]

set(self, pos) ==
  [self EXCEPT !.m_bits[block_index(pos)] = @ \cup bit_mask(pos),
               !.m_count = @ + 1]

\* a slip: the bit is cleared and m_count kept
clearKeepsCount(self, pos) ==
  [self EXCEPT !.m_bits[block_index(pos)] = @ \cap Not(bit_mask(pos))]

clear(self, pos) ==
  [self EXCEPT !.m_bits[block_index(pos)] = @ \cap Not(bit_mask(pos)),
               !.m_count = @ - 1]

at(self, pos) ==
  IF 0 \in Shr(self.m_bits[block_index(pos)], bit_index(pos)) THEN 1 ELSE 0

reset(self) ==
  [self EXCEPT !.m_bits = [i \in DOMAIN self.m_bits |-> {}],
               !.m_count = 0]

count(self) == self.m_count

RECURSIVE SumPopcount(_, _)
SumPopcount(bits, blocks) ==
  IF blocks = {} THEN 0
  ELSE LET i == CHOOSE b \in blocks : TRUE
       IN popcount(bits[i]) + SumPopcount(bits, blocks \ {i})

\* std::for_each over the blocks, adding std::popcount(block)
recount(self) == SumPopcount(self.m_bits, DOMAIN self.m_bits)

\* popcount of the blockwise and of the two arrays, over the blocks of self
common(self, other) ==
  SumPopcount([i \in DOMAIN self.m_bits |-> self.m_bits[i] \cap other.m_bits[i]],
              DOMAIN self.m_bits)

\* operator==: compares the blocks, all of them
Equal(self, other) ==
  \A i \in 0 .. num_blocks(self) - 1 : self.m_bits[i] = other.m_bits[i]

----------------------------------------------------------------------------
(* BitArray::rotate, the blockwise right rotate *)

\* a slip: opos++ is left out
WriteBlockNoAdvance(st, block) ==
  IF st.opos \in DOMAIN st.m_bits
    THEN [st EXCEPT !.m_bits[st.opos] = block]
    ELSE [st EXCEPT !.threw = TRUE]

\* m_bits.at(opos) = block; opos++;   at() throws std::out_of_range when
\* opos is no index of m_bits, and nothing after it runs
WriteBlock(st, block) ==
  IF st.opos \in DOMAIN st.m_bits
    THEN [st EXCEPT !.m_bits[st.opos] = block, !.opos = @ + 1]
    ELSE [st EXCEPT !.threw = TRUE]

\* st with the amounts s of the shifts (<< s, >> s) it has just evaluated
\* added to those evaluated so far
Shifted(st, s) == [st EXCEPT !.amounts = @ \cup s]

\* the branch taken when the source cursor reaches the last block, which
\* is not the start block.  st.block is the output block under construction.
RotateWrapBranch(other, last_bits, st) ==
  LET rblock == IF st.ibit_pos = 0 THEN {}
                ELSE Shl(other.m_bits[st.iblk_pos], bits_per_block - st.ibit_pos)
      block  == st.block \cup rblock
      s0     == Shifted(st, IF st.ibit_pos = 0 THEN {}
                            ELSE {bits_per_block - st.ibit_pos})
  IN IF (last_bits = 0) \/ (last_bits >= st.ibit_pos)
       THEN LET w      == WriteBlock(s0, block)
                block2 == LowBits(Shr(other.m_bits[st.iblk_pos], st.ibit_pos),
                                  last_bits - st.ibit_pos)
                ibit2  == IF last_bits = 0 THEN st.ibit_pos
                          ELSE bits_per_block - (last_bits - st.ibit_pos)
                w1     == Shifted(w, {st.ibit_pos, last_bits - st.ibit_pos})
            IN IF w.threw THEN w
               ELSE IF (ibit2 = 0) /\ (last_bits = 0)
                      THEN [w1 EXCEPT !.block = block2, !.ibit_pos = ibit2,
                                      !.continue = TRUE]
                      ELSE [w1 EXCEPT !.block = block2, !.ibit_pos = ibit2,
                                      !.iblk_pos = 0]
       ELSE [s0 EXCEPT !.block = block, !.ibit_pos = @ - last_bits,
                       !.iblk_pos = 0]

\* the end of the loop body: the closing branch when the source cursor is
\* back at the start block, the plain merge of two source blocks otherwise
RotateMergeBranch(other, start_blk_pos, start_bit_pos, last_bits, st) ==
  LET rblock == IF st.ibit_pos = 0 THEN {}
                ELSE Shl(other.m_bits[st.iblk_pos], bits_per_block - st.ibit_pos)
      s0     == Shifted(st, IF st.ibit_pos = 0 THEN {}
                            ELSE {bits_per_block - st.ibit_pos})
  IN IF st.iblk_pos = start_blk_pos
       THEN IF st.ibit_pos >= start_bit_pos
              THEN IF last_bits = 0
                     THEN WriteBlock(s0, st.block \cup rblock)
                     ELSE WriteBlock(Shifted(s0, {bits_per_block - last_bits, last_bits}),
                            LowBits(st.block \cup
                                      (rblock \cap Shr(AllOnes, bits_per_block - last_bits)),
                                    last_bits))
              ELSE LET w  == WriteBlock(s0, st.block \cup rblock)
                       ok == w.opos = Cardinality(DOMAIN st.m_bits) - 1
                       block2 == LowBits(Shr(other.m_bits[start_blk_pos], st.ibit_pos),
                                         last_bits)
                   IN IF w.threw THEN w
                      ELSE WriteBlock(Shifted([w EXCEPT !.asserted = @ /\ ok,
                                                       !.assert_reached = TRUE],
                                              {st.ibit_pos, last_bits}),
                                      block2)
       ELSE WriteBlock(s0, st.block \cup rblock)

\* one pass through the body of while (opos < num_blocks())
RotateLoopBody(other, start_blk_pos, start_bit_pos, last_bits, st) ==
  LET nblocks == Cardinality(DOMAIN st.m_bits)
      block   == IF st.ibit_pos >= bits_per_block THEN {}
                 ELSE Shr(other.m_bits[st.iblk_pos], st.ibit_pos)
      ibit1   == IF (start_bit_pos = st.ibit_pos) /\ (st.iblk_pos = nblocks - 1)
                   THEN IF last_bits = 0 THEN st.ibit_pos
                        ELSE bits_per_block - (last_bits - st.ibit_pos)
                   ELSE st.ibit_pos
      iblk1   == IF st.iblk_pos + 1 = nblocks THEN 0 ELSE st.iblk_pos + 1
      s0      == Shifted(st, IF st.ibit_pos >= bits_per_block THEN {}
                             ELSE {st.ibit_pos})
      s1      == [s0 EXCEPT !.block = block, !.ibit_pos = ibit1, !.iblk_pos = iblk1]
      s2      == IF (iblk1 = nblocks - 1) /\ (iblk1 # start_blk_pos)
                   THEN RotateWrapBranch(other, last_bits, s1)
                   ELSE s1
  IN IF s2.threw THEN s2
     ELSE IF s2.continue THEN [s2 EXCEPT !.continue = FALSE]
     ELSE RotateMergeBranch(other, start_blk_pos, start_bit_pos, last_bits, s2)

RECURSIVE RotateLoop(_, _, _, _, _)
RotateLoop(other, start_blk_pos, start_bit_pos, last_bits, st) ==
  IF st.threw \/ ~(st.opos < Cardinality(DOMAIN st.m_bits))
    THEN st
    ELSE RotateLoop(other, start_blk_pos, start_bit_pos, last_bits,
                    RotateLoopBody(other, start_blk_pos, start_bit_pos, last_bits, st))

\* a slip: the source cursor starts n bits after bit 0, a left rotate
RotateStartLeft(self, n) ==
  [m_bits   |-> self.m_bits,
   opos     |-> 0,
   iblk_pos |-> block_index(n),
   ibit_pos |-> bit_index(n),
   block    |-> {},
   continue |-> FALSE,
   threw    |-> FALSE,
   asserted |-> TRUE,
   assert_reached |-> FALSE,
   amounts  |-> {}]

\* the locals of rotate at the first test of the loop condition
RotateStart(self, n) ==
  [m_bits   |-> self.m_bits,
   opos     |-> 0,
   iblk_pos |-> block_index(self.m_num_bits - n),
   ibit_pos |-> bit_index(self.m_num_bits - n),
   block    |-> {},
   continue |-> FALSE,
   threw    |-> FALSE,
   asserted |-> TRUE,
   assert_reached |-> FALSE,
   amounts  |-> {}]

\* a slip: a rotation by 0 returns without the copy
rotateNoCopy(self, other, n) ==
  LET n1 == IF n >= self.m_num_bits THEN n % self.m_num_bits ELSE n
  IN IF n1 = 0
       THEN self
       ELSE LET start == RotateStart(self, n1)
            IN [self EXCEPT !.m_bits =
                  RotateLoop(other, start.iblk_pos, start.ibit_pos,
                             self.m_num_bits % bits_per_block, start).m_bits]

\* a slip: the rotate ends with m_count = recount()
rotateRecounts(self, other, n) ==
  LET n1 == IF n >= self.m_num_bits THEN n % self.m_num_bits ELSE n
  IN IF n1 = 0
       THEN other
       ELSE LET start == RotateStart(self, n1)
                bits  == RotateLoop(other, start.iblk_pos, start.ibit_pos,
                                    self.m_num_bits % bits_per_block, start).m_bits
            IN [self EXCEPT !.m_bits = bits,
                            !.m_count = SumPopcount(bits, DOMAIN bits)]

\* self.rotate(other, n): the array self becomes
rotate(self, other, n) ==
  LET n1 == IF n >= self.m_num_bits THEN n % self.m_num_bits ELSE n
  IN IF n1 = 0
       THEN other
       ELSE LET start == RotateStart(self, n1)
            IN [self EXCEPT !.m_bits =
                  RotateLoop(other, start.iblk_pos, start.ibit_pos,
                             self.m_num_bits % bits_per_block, start).m_bits]

\* the locals of self.rotate(other, n) when the loop is left; for a rotation
\* by 0 the loop is never entered
RotateEnd(self, other, n) ==
  LET n1    == IF n >= self.m_num_bits THEN n % self.m_num_bits ELSE n
      start == RotateStart(self, n1)
  IN IF n1 = 0 THEN start
     ELSE RotateLoop(other, start.iblk_pos, start.ibit_pos,
                     self.m_num_bits % bits_per_block, start)

----------------------------------------------------------------------------
(* BitArray::rotateRight, the elementwise right rotate *)

RECURSIVE RotateRightLoop(_, _, _, _)
RotateRightLoop(self, other, n, i) ==
  IF ~(i < size(self)) THEN self
  ELSE RotateRightLoop(
         IF at(other, (i + size(self) - n) % size(self)) = 1
           THEN set(self, i) ELSE self,
         other, n, i + 1)

rotateRight(self, other, n) ==
  LET n1 == IF n >= self.m_num_bits THEN n % self.m_num_bits ELSE n
  IN IF n1 = 0
       THEN other
       ELSE RotateRightLoop(reset(self), other, n1, 0)

----------------------------------------------------------------------------
(* BitArray::createLeftNeighbourMask, BitArray::createRightNeighbourMask *)

\* for (int i = last; i >= 0; --i): block i becomes itself << 1, or-ed with
\* the top bit of prev, the block i+1 as it was (0 for the last block)
ShiftLeftLoop(b) ==
  LET last == Cardinality(DOMAIN b) - 1
  IN [i \in DOMAIN b |->
        Shl(b[i], 1) \cup Shr(IF i = last THEN {} ELSE b[i + 1], bits_per_block - 1)]

\* a slip: the blocks are shifted the other way
ShiftRightLoopLeft(b) ==
  [i \in DOMAIN b |->
     Shl(b[i], 1) \cup Shr(IF i = 0 THEN {} ELSE b[i - 1], bits_per_block - 1)]

\* for (size_type i = 0; i <= last; ++i): block i becomes itself >> 1, or-ed
\* with the low bit of prev, the block i-1 as it was (0 for block 0), moved
\* to the top offset
ShiftRightLoop(b) ==
  [i \in DOMAIN b |->
     Shr(b[i], 1) \cup Shl(IF i = 0 THEN {} ELSE b[i - 1], bits_per_block - 1)]

\* the loop over ir: ir < dt passes are left; acc is m_bits, b the shifted copy
RECURSIVE LeftMaskLoop(_, _, _)
LeftMaskLoop(acc, b, passes) ==
  IF passes <= 0 THEN acc
  ELSE LET b1 == ShiftLeftLoop(b)
       IN LeftMaskLoop([i \in DOMAIN acc |-> acc[i] \cup b1[i]], b1, passes - 1)

\* a slip: one pass too few
RECURSIVE RightMaskLoopShort(_, _, _)
RightMaskLoopShort(acc, b, passes) ==
  IF passes <= 1 THEN acc
  ELSE LET b1 == ShiftRightLoop(b)
       IN RightMaskLoopShort([i \in DOMAIN acc |-> acc[i] \cup b1[i]], b1, passes - 1)

RECURSIVE RightMaskLoop(_, _, _)
RightMaskLoop(acc, b, passes) ==
  IF passes <= 0 THEN acc
  ELSE LET b1 == ShiftRightLoop(b)
       IN RightMaskLoop([i \in DOMAIN acc |-> acc[i] \cup b1[i]], b1, passes - 1)

\* a slip: dt == bits_per_block is taken for a distance in range
createLeftNeighbourMaskInclusive(self, other, dt) ==
  LET copied == [self EXCEPT !.m_bits = other.m_bits,
                             !.m_num_bits = other.m_num_bits,
                             !.m_bitset_capacity = other.m_bitset_capacity]
  IN IF (dt > 0) /\ (dt <= bits_per_block)
       THEN LET masked == [copied EXCEPT !.m_bits =
                             LeftMaskLoop(other.m_bits, other.m_bits, dt)]
            IN [masked EXCEPT !.m_count = recount(masked)]
       ELSE copied

createLeftNeighbourMask(self, other, dt) ==
  LET copied == [self EXCEPT !.m_bits = other.m_bits,
                             !.m_num_bits = other.m_num_bits,
                             !.m_bitset_capacity = other.m_bitset_capacity]
  IN IF (dt > 0) /\ (dt < bits_per_block)
       THEN LET masked == [copied EXCEPT !.m_bits =
                             LeftMaskLoop(other.m_bits, other.m_bits, dt)]
            IN [masked EXCEPT !.m_count = recount(masked)]
       ELSE copied

createRightNeighbourMask(self, other, dt) ==
  LET copied == [self EXCEPT !.m_bits = other.m_bits,
                             !.m_num_bits = other.m_num_bits,
                             !.m_bitset_capacity = other.m_bitset_capacity]
  IN IF (dt > 0) /\ (dt < bits_per_block)
       THEN LET masked == [copied EXCEPT !.m_bits =
                             RightMaskLoop(other.m_bits, other.m_bits, dt)]
            IN [masked EXCEPT !.m_count = recount(masked)]
       ELSE copied

----------------------------------------------------------------------------
(* StaticBitArray<N,Block> (StaticBitArray.hpp): the blocks are a member    *)
(* array Block[num_of_blocks], the length N is a constant of the type      *)

\* block << s and block >> s in StaticBitArray's code: the build need not
\* make of an out-of-range shift there what it makes of one in BitArray's
StaticShl(block, s) ==
  IF s \in AllOnes
    THEN {j + s : j \in block} \cap AllOnes
    ELSE IF static_shift_ub = "modulo"
           THEN {j + (s % bits_per_block) : j \in block} \cap AllOnes
           ELSE {}

StaticShr(block, s) ==
  IF s \in AllOnes
    THEN {j - s : j \in block} \cap AllOnes
    ELSE IF static_shift_ub = "modulo"
           THEN {j - (s % bits_per_block) : j \in block} \cap AllOnes
           ELSE {}

\* block & ~(~static_cast<block_type>(0) << nbits)
StaticLowBits(block, nbits) == block \cap Not(StaticShl(AllOnes, nbits))

\* StaticBitArray(): reset() on Block[num_of_blocks]
StaticBitArray(N) ==
  [num_of_bits |-> N,
   m_count     |-> 0,
   m_bits      |-> [i \in 0 .. (N - 1) \div bits_per_block |-> {}]]

Static_set(self, pos) ==
  [self EXCEPT !.m_bits[block_index(pos)] = @ \cup bit_mask(pos),
               !.m_count = @ + 1]

Static_clear(self, pos) ==
  [self EXCEPT !.m_bits[block_index(pos)] = @ \cap Not(bit_mask(pos)),
               !.m_count = @ - 1]

Static_reset(self) ==
  [self EXCEPT !.m_bits = [i \in DOMAIN self.m_bits |-> {}],
               !.m_count = 0]

Static_recount(self) == SumPopcount(self.m_bits, DOMAIN self.m_bits)

\* m_bits[opos] = block; opos++;   a write past the member array is
\* undefined behaviour: oob records it and the caller draws the outcome
StaticWriteBlock(st, block) ==
  IF st.opos \in DOMAIN st.m_bits
    THEN [st EXCEPT !.m_bits[st.opos] = block, !.opos = @ + 1]
    ELSE [st EXCEPT !.oob = TRUE, !.opos = @ + 1]

StaticRotateWrapBranch(other, last_bits, st) ==
  LET rblock == IF st.ibit_pos = 0 THEN {}
                ELSE StaticShl(other.m_bits[st.iblk_pos], bits_per_block - st.ibit_pos)
      block  == st.block \cup rblock
  IN IF (last_bits = 0) \/ (last_bits >= st.ibit_pos)
       THEN LET w      == StaticWriteBlock(st, block)
                block2 == StaticLowBits(StaticShr(other.m_bits[st.iblk_pos], st.ibit_pos),
                                        last_bits - st.ibit_pos)
                ibit2  == IF last_bits = 0 THEN st.ibit_pos
                          ELSE bits_per_block - (last_bits - st.ibit_pos)
            IN IF (ibit2 = 0) /\ (last_bits = 0)
                 THEN [w EXCEPT !.block = block2, !.ibit_pos = ibit2,
                                !.continue = TRUE]
                 ELSE [w EXCEPT !.block = block2, !.ibit_pos = ibit2,
                                !.iblk_pos = 0]
       ELSE [st EXCEPT !.block = block, !.ibit_pos = @ - last_bits,
                       !.iblk_pos = 0]

StaticRotateMergeBranch(other, start_blk_pos, start_bit_pos, last_bits, st) ==
  LET rblock == IF st.ibit_pos = 0 THEN {}
                ELSE StaticShl(other.m_bits[st.iblk_pos], bits_per_block - st.ibit_pos)
  IN IF st.iblk_pos = start_blk_pos
       THEN IF st.ibit_pos >= start_bit_pos
              THEN IF last_bits = 0
                     THEN StaticWriteBlock(st, st.block \cup rblock)
                     ELSE StaticWriteBlock(st,
                            StaticLowBits(st.block \cup
                                            (rblock \cap
                                               StaticShr(AllOnes, bits_per_block - last_bits)),
                                          last_bits))
              ELSE LET w  == StaticWriteBlock(st, st.block \cup rblock)
                       ok == w.opos = Cardinality(DOMAIN st.m_bits) - 1
                       block2 == StaticLowBits(
                                   StaticShr(other.m_bits[start_blk_pos], st.ibit_pos),
                                   last_bits)
                   IN StaticWriteBlock([w EXCEPT !.asserted = @ /\ ok], block2)
       ELSE StaticWriteBlock(st, st.block \cup rblock)

StaticRotateLoopBody(other, start_blk_pos, start_bit_pos, last_bits, st) ==
  LET nblocks == Cardinality(DOMAIN st.m_bits)
      block   == IF st.ibit_pos >= bits_per_block THEN {}
                 ELSE StaticShr(other.m_bits[st.iblk_pos], st.ibit_pos)
      ibit1   == IF (start_bit_pos = st.ibit_pos) /\ (st.iblk_pos = nblocks - 1)
                   THEN IF last_bits = 0 THEN st.ibit_pos
                        ELSE bits_per_block - (last_bits - st.ibit_pos)
                   ELSE st.ibit_pos
      iblk1   == IF st.iblk_pos + 1 = nblocks THEN 0 ELSE st.iblk_pos + 1
      s1      == [st EXCEPT !.block = block, !.ibit_pos = ibit1, !.iblk_pos = iblk1]
      s2      == IF (iblk1 = nblocks - 1) /\ (iblk1 # start_blk_pos)
                   THEN StaticRotateWrapBranch(other, last_bits, s1)
                   ELSE s1
  IN IF s2.continue THEN [s2 EXCEPT !.continue = FALSE]
     ELSE StaticRotateMergeBranch(other, start_blk_pos, start_bit_pos, last_bits, s2)

RECURSIVE StaticRotateLoop(_, _, _, _, _)
StaticRotateLoop(other, start_blk_pos, start_bit_pos, last_bits, st) ==
  IF ~(st.opos < Cardinality(DOMAIN st.m_bits))
    THEN st
    ELSE StaticRotateLoop(other, start_blk_pos, start_bit_pos, last_bits,
           StaticRotateLoopBody(other, start_blk_pos, start_bit_pos, last_bits, st))

StaticRotateStart(self, n) ==
  [m_bits   |-> self.m_bits,
   opos     |-> 0,
   iblk_pos |-> block_index(self.num_of_bits - n),
   ibit_pos |-> bit_index(self.num_of_bits - n),
   block    |-> {},
   continue |-> FALSE,
   oob      |-> FALSE,
   asserted |-> TRUE]

\* the locals of self.rotate(other, n) when the loop is left; for a rotation
\* by 0 the loop is never entered
StaticRotateEnd(self, other, n) ==
  LET n1    == IF n >= self.num_of_bits THEN n % self.num_of_bits ELSE n
      start == StaticRotateStart(self, n1)
  IN IF n1 = 0 THEN start
     ELSE StaticRotateLoop(other, start.iblk_pos, start.ibit_pos,
                           self.num_of_bits % bits_per_block, start)

\* self.rotate(other, n): the array self becomes
Static_rotate(self, other, n) ==
  LET n1 == IF n >= self.num_of_bits THEN n % self.num_of_bits ELSE n
  IN IF n1 = 0
       THEN other
       ELSE [self EXCEPT !.m_bits = StaticRotateEnd(self, other, n).m_bits]

\* a slip: the carry comes from the block below
StaticShiftLeftLoopUp(b) ==
  [i \in DOMAIN b |->
     StaticShl(b[i], 1) \cup
       StaticShr(IF i = 0 THEN {} ELSE b[i - 1], bits_per_block - 1)]

\* for (int i = last; i >= 0; --i) newv = (b[i] << 1) | (prev >> (bits_per_block-1))
StaticShiftLeftLoop(b) ==
  LET last == Cardinality(DOMAIN b) - 1
  IN [i \in DOMAIN b |->
        StaticShl(b[i], 1) \cup
          StaticShr(IF i = last THEN {} ELSE b[i + 1], bits_per_block - 1)]

\* for (size_type i = 0; i <= last; ++i) newv = (b[i] >> 1) | (prev << (bits_per_block-1))
StaticShiftRightLoop(b) ==
  [i \in DOMAIN b |->
     StaticShr(b[i], 1) \cup
       StaticShl(IF i = 0 THEN {} ELSE b[i - 1], bits_per_block - 1)]

RECURSIVE StaticLeftMaskLoop(_, _, _)
StaticLeftMaskLoop(acc, b, passes) ==
  IF passes <= 0 THEN acc
  ELSE LET b1 == StaticShiftLeftLoop(b)
       IN StaticLeftMaskLoop([i \in DOMAIN acc |-> acc[i] \cup b1[i]], b1, passes - 1)

RECURSIVE StaticRightMaskLoop(_, _, _)
StaticRightMaskLoop(acc, b, passes) ==
  IF passes <= 0 THEN acc
  ELSE LET b1 == StaticShiftRightLoop(b)
       IN StaticRightMaskLoop([i \in DOMAIN acc |-> acc[i] \cup b1[i]], b1, passes - 1)

Static_createLeftNeighbourMask(self, other, dt) ==
  LET copied == [self EXCEPT !.m_bits = other.m_bits]
  IN IF (dt > 0) /\ (dt < bits_per_block)
       THEN LET masked == [copied EXCEPT !.m_bits =
                             StaticLeftMaskLoop(other.m_bits, other.m_bits, dt)]
            IN [masked EXCEPT !.m_count = Static_recount(masked)]
       ELSE copied

Static_createRightNeighbourMask(self, other, dt) ==
  LET copied == [self EXCEPT !.m_bits = other.m_bits]
  IN IF (dt > 0) /\ (dt < bits_per_block)
       THEN LET masked == [copied EXCEPT !.m_bits =
                             StaticRightMaskLoop(other.m_bits, other.m_bits, dt)]
            IN [masked EXCEPT !.m_count = Static_recount(masked)]
       ELSE copied

----------------------------------------------------------------------------
(* The arrays the specifications start from *)

\* BitArray(num_bits) followed by one set(pos) for every pos of ones, as
\* make_bitarray and the tests fill their arrays
RECURSIVE SetAll(_, _)
SetAll(self, ones) ==
  IF ones = {} THEN self
  ELSE LET pos == CHOOSE p \in ones : TRUE
       IN SetAll(set(self, pos), ones \ {pos})

Filled(num_bits, ones) == SetAll(BitArray(num_bits), ones)

NoCall == [op |-> "none", n |-> 0, b |-> -1]

InitArrays(widths, maxbits) ==
  /\ bits_per_block \in widths
  /\ shift_ub \in ShiftOutcomes
  /\ \E num_bits \in 1 .. maxbits :
       /\ \E ones \in SUBSET (0 .. num_bits - 1) : bitarr = Filled(num_bits, ones)
       /\ r1 = BitArray(num_bits)
       /\ r2 = BitArray(num_bits)
       /\ r3 = BitArray(num_bits)
  /\ call = NoCall
  /\ only_transitions = TRUE

\* the threads that make the calls of SpecSteps and SpecConc
Threads == {1, 2}

\* the locals of a thread that has made no call
Idle ==
  [pc |-> "idle", op |-> "none", n |-> 0,
   start_blk_pos |-> 0, start_bit_pos |-> 0, last_bits |-> 0,
   st |-> <<>>, other |-> <<>>, lbits |-> <<>>, ir |-> 0]

\* what the specifications without a StaticBitArray, threads or arrays of
\* different lengths start from
InitRest ==
  /\ static_shift_ub = shift_ub
  /\ sarr = StaticBitArray(size(r1))
  /\ th = [t \in Threads |-> Idle]
  /\ aborted = FALSE

----------------------------------------------------------------------------
(* Spec: the rotations of the tests *)

\* TestRotate (TestBitArray.cpp), one pass of the loop over j: two fresh
\* arrays, the blockwise rotate into one, the elementwise into the other.
\* The arrays of a pass are fresh, so a behaviour follows one pass.
TestRotate(n) ==
  /\ call.op = "none"
  /\ r1' = rotate(BitArray(size(bitarr)), bitarr, n)
  /\ r2' = rotateRight(BitArray(size(bitarr)), bitarr, n)
  /\ call' = [op |-> "rotate", n |-> n, b |-> -1]
  /\ UNCHANGED <<static_shift_ub, sarr, th, aborted>>
  /\ UNCHANGED <<bits_per_block, shift_ub, bitarr, r3, only_transitions>>

\* a second blockwise rotate, of the result of the first, into a fresh array
RotateAgain(b) ==
  /\ call.op = "rotate"
  /\ call.b = -1
  /\ r3' = rotate(BitArray(size(r1)), r1, b)
  /\ call' = [call EXCEPT !.b = b]
  /\ UNCHANGED <<static_shift_ub, sarr, th, aborted>>
  /\ UNCHANGED <<bits_per_block, shift_ub, bitarr, r1, r2, only_transitions>>

Init == InitArrays(BlockWidths, MaxBits) /\ InitRest

Next ==
  \/ \E n \in 0 .. size(bitarr) + 1 : TestRotate(n)
  \/ \E b \in 0 .. size(bitarr) + 1 : RotateAgain(b)

Spec == Init /\ [][Next]_vars

----------------------------------------------------------------------------
(* SpecMask: the neighbour masks of TestMaskCreation *)

\* shift_spikes.createLeftNeighbourMask(spikes_1, dt), shift_spikes fresh
LeftMask(dt) ==
  /\ call.op = "none"
  /\ r1' = createLeftNeighbourMask(r1, bitarr, dt)
  /\ call' = [op |-> "left", n |-> dt, b |-> -1]
  /\ UNCHANGED <<static_shift_ub, sarr, th, aborted>>
  /\ UNCHANGED <<bits_per_block, shift_ub, bitarr, r2, r3, only_transitions>>

\* shift_spikes.createRightNeighbourMask(spikes_1, dt), shift_spikes fresh
RightMask(dt) ==
  /\ call.op = "none"
  /\ r1' = createRightNeighbourMask(r1, bitarr, dt)
  /\ call' = [op |-> "right", n |-> dt, b |-> -1]
  /\ UNCHANGED <<static_shift_ub, sarr, th, aborted>>
  /\ UNCHANGED <<bits_per_block, shift_ub, bitarr, r2, r3, only_transitions>>

InitMask == InitArrays(MaskWidths, MaxBits) /\ InitRest

NextMask ==
  \/ \E dt \in -1 .. bits_per_block + 1 : LeftMask(dt)
  \/ \E dt \in -1 .. bits_per_block + 1 : RightMask(dt)

SpecMask == InitMask /\ [][NextMask]_vars

----------------------------------------------------------------------------
(* SpecOps: the public operations, in any order, on the array r1; the     *)
(* source of its rotations and masks is bitarr                            *)

\* the bit pos of self is one
IsSet(self, pos) == at(self, pos) = 1

\* m_count is a size_t: the model stops set at MaxCount and clear at 0
Set(pos) ==
  /\ r1.m_count < MaxCount
  /\ r1' = set(r1, pos)
  /\ only_transitions' = (only_transitions /\ ~IsSet(r1, pos))
  /\ UNCHANGED <<static_shift_ub, sarr, th, aborted>>
  /\ UNCHANGED <<bits_per_block, shift_ub, bitarr, r2, r3, call>>

Clear(pos) ==
  /\ r1.m_count > 0
  /\ r1' = clear(r1, pos)
  /\ only_transitions' = (only_transitions /\ IsSet(r1, pos))
  /\ UNCHANGED <<static_shift_ub, sarr, th, aborted>>
  /\ UNCHANGED <<bits_per_block, shift_ub, bitarr, r2, r3, call>>

Reset ==
  /\ r1' = reset(r1)
  /\ UNCHANGED <<static_shift_ub, sarr, th, aborted>>
  /\ UNCHANGED <<bits_per_block, shift_ub, bitarr, r2, r3, call, only_transitions>>

Rotate(n) ==
  /\ r1' = rotate(r1, bitarr, n)
  /\ only_transitions' = FALSE
  /\ UNCHANGED <<static_shift_ub, sarr, th, aborted>>
  /\ UNCHANGED <<bits_per_block, shift_ub, bitarr, r2, r3, call>>

CreateLeftNeighbourMask(dt) ==
  /\ r1' = createLeftNeighbourMask(r1, bitarr, dt)
  /\ only_transitions' = FALSE
  /\ UNCHANGED <<static_shift_ub, sarr, th, aborted>>
  /\ UNCHANGED <<bits_per_block, shift_ub, bitarr, r2, r3, call>>

CreateRightNeighbourMask(dt) ==
  /\ r1' = createRightNeighbourMask(r1, bitarr, dt)
  /\ only_transitions' = FALSE
  /\ UNCHANGED <<static_shift_ub, sarr, th, aborted>>
  /\ UNCHANGED <<bits_per_block, shift_ub, bitarr, r2, r3, call>>

InitOps == InitArrays(OpsWidths, MaxOpsBits) /\ InitRest

NextOps ==
  \/ \E pos \in 0 .. size(r1) - 1 : Set(pos)
  \/ \E pos \in 0 .. size(r1) - 1 : Clear(pos)
  \/ Reset
  \/ \E n \in 0 .. size(r1) : Rotate(n)
  \/ \E dt \in 0 .. bits_per_block : CreateLeftNeighbourMask(dt)
  \/ \E dt \in 0 .. bits_per_block : CreateRightNeighbourMask(dt)

SpecOps == InitOps /\ [][NextOps]_vars

----------------------------------------------------------------------------
(* SpecEquiv: a BitArray of length N, r1, and a StaticBitArray<N>, sarr,   *)
(* both constructed empty and driven by the same calls; the source of the  *)
(* rotations and masks of r1 is bitarr, that of sarr a StaticBitArray<N>   *)
(* filled by the calls of set that filled bitarr                           *)

RECURSIVE StaticSetAll(_, _)
StaticSetAll(self, ones) ==
  IF ones = {} THEN self
  ELSE LET pos == CHOOSE p \in ones : TRUE
       IN StaticSetAll(Static_set(self, pos), ones \ {pos})

\* the source of the calls on sarr
StaticSource ==
  StaticSetAll(StaticBitArray(size(bitarr)),
               {i \in 0 .. size(bitarr) - 1 : at(bitarr, i) = 1})

\* m_count is a size_t: the model stops set at MaxEquivCount and clear at 0
BothSet(pos) ==
  /\ r1.m_count < MaxEquivCount
  /\ r1' = set(r1, pos)
  /\ sarr' = Static_set(sarr, pos)
  /\ UNCHANGED <<bits_per_block, shift_ub, bitarr, r2, r3, call, only_transitions,
                 static_shift_ub, th, aborted>>

BothClear(pos) ==
  /\ r1.m_count > 0
  /\ r1' = clear(r1, pos)
  /\ sarr' = Static_clear(sarr, pos)
  /\ UNCHANGED <<bits_per_block, shift_ub, bitarr, r2, r3, call, only_transitions,
                 static_shift_ub, th, aborted>>

BothReset ==
  /\ r1' = reset(r1)
  /\ sarr' = Static_reset(sarr)
  /\ UNCHANGED <<bits_per_block, shift_ub, bitarr, r2, r3, call, only_transitions,
                 static_shift_ub, th, aborted>>

\* a write of StaticBitArray::rotate past its member array leaves any
\* blocks; a throw of at() or a failed assert ends the program
BothRotate(n) ==
  LET dyn  == RotateEnd(r1, bitarr, n)
      stat == StaticRotateEnd(sarr, StaticSource, n)
  IN /\ r1' = rotate(r1, bitarr, n)
     /\ IF stat.oob
          THEN \E blocks \in [DOMAIN sarr.m_bits -> SUBSET AllOnes] :
                 sarr' = [sarr EXCEPT !.m_bits = blocks]
          ELSE sarr' = Static_rotate(sarr, StaticSource, n)
     /\ aborted' = (aborted \/ dyn.threw \/ ~dyn.asserted \/ ~stat.asserted)
     /\ UNCHANGED <<bits_per_block, shift_ub, bitarr, r2, r3, call, only_transitions,
                    static_shift_ub, th>>

BothLeftMask(dt) ==
  /\ r1' = createLeftNeighbourMask(r1, bitarr, dt)
  /\ sarr' = Static_createLeftNeighbourMask(sarr, StaticSource, dt)
  /\ UNCHANGED <<bits_per_block, shift_ub, bitarr, r2, r3, call, only_transitions,
                 static_shift_ub, th, aborted>>

BothRightMask(dt) ==
  /\ r1' = createRightNeighbourMask(r1, bitarr, dt)
  /\ sarr' = Static_createRightNeighbourMask(sarr, StaticSource, dt)
  /\ UNCHANGED <<bits_per_block, shift_ub, bitarr, r2, r3, call, only_transitions,
                 static_shift_ub, th, aborted>>

InitEquiv ==
  /\ InitArrays(OpsWidths, MaxOpsBits)
  /\ static_shift_ub \in ShiftOutcomes
  /\ sarr = StaticBitArray(size(r1))
  /\ th = [t \in Threads |-> Idle]
  /\ aborted = FALSE

NextEquiv ==
  \/ \E pos \in 0 .. size(r1) - 1 : BothSet(pos)
  \/ \E pos \in 0 .. size(r1) - 1 : BothClear(pos)
  \/ BothReset
  \/ \E n \in 0 .. size(r1) : BothRotate(n)
  \/ \E dt \in 0 .. bits_per_block : BothLeftMask(dt)
  \/ \E dt \in 0 .. bits_per_block : BothRightMask(dt)

SpecEquiv == InitEquiv /\ [][NextEquiv]_vars

----------------------------------------------------------------------------
(* SpecLen: one call of a public operation of a checked build (assert      *)
(* enabled) on the array r1, an array after its calls of set, with a       *)
(* source bitarr constructed with any length                               *)

LenSet(pos) ==
  /\ call.op = "none"
  /\ r1' = set(r1, pos)
  /\ call' = [op |-> "set", n |-> pos, b |-> -1]
  /\ UNCHANGED <<bits_per_block, shift_ub, bitarr, r2, r3, only_transitions,
                 static_shift_ub, sarr, th, aborted>>

LenClear(pos) ==
  /\ call.op = "none"
  /\ r1.m_count > 0
  /\ r1' = clear(r1, pos)
  /\ call' = [op |-> "clear", n |-> pos, b |-> -1]
  /\ UNCHANGED <<bits_per_block, shift_ub, bitarr, r2, r3, only_transitions,
                 static_shift_ub, sarr, th, aborted>>

LenReset ==
  /\ call.op = "none"
  /\ r1' = reset(r1)
  /\ call' = [op |-> "reset", n |-> 0, b |-> -1]
  /\ UNCHANGED <<bits_per_block, shift_ub, bitarr, r2, r3, only_transitions,
                 static_shift_ub, sarr, th, aborted>>

\* r1.rotate(bitarr, n): the asserts of lines 422-423 come first
LenRotate(n) ==
  /\ call.op = "none"
  /\ IF size(r1) = size(bitarr) /\ num_blocks(r1) = num_blocks(bitarr)
       THEN r1' = rotate(r1, bitarr, n) /\ aborted' = FALSE
       ELSE r1' = r1 /\ aborted' = TRUE
  /\ call' = [op |-> "rotate", n |-> n, b |-> -1]
  /\ UNCHANGED <<bits_per_block, shift_ub, bitarr, r2, r3, only_transitions,
                 static_shift_ub, sarr, th>>

\* r1.createLeftNeighbourMask(bitarr, dt): no assert
LenLeftMask(dt) ==
  /\ call.op = "none"
  /\ r1' = createLeftNeighbourMask(r1, bitarr, dt)
  /\ call' = [op |-> "left", n |-> dt, b |-> -1]
  /\ UNCHANGED <<bits_per_block, shift_ub, bitarr, r2, r3, only_transitions,
                 static_shift_ub, sarr, th, aborted>>

\* r1.createRightNeighbourMask(bitarr, dt): no assert
LenRightMask(dt) ==
  /\ call.op = "none"
  /\ r1' = createRightNeighbourMask(r1, bitarr, dt)
  /\ call' = [op |-> "right", n |-> dt, b |-> -1]
  /\ UNCHANGED <<bits_per_block, shift_ub, bitarr, r2, r3, only_transitions,
                 static_shift_ub, sarr, th, aborted>>

\* r1 == bitarr: the asserts of lines 634-635, then the result in call.b
LenEqual ==
  /\ call.op = "none"
  /\ IF size(r1) = size(bitarr) /\ num_blocks(r1) = num_blocks(bitarr)
       THEN /\ call' = [op |-> "equal", n |-> 0,
                        b |-> IF Equal(r1, bitarr) THEN 1 ELSE 0]
            /\ aborted' = FALSE
       ELSE /\ call' = [op |-> "equal", n |-> 0, b |-> -1]
            /\ aborted' = TRUE
  /\ UNCHANGED <<bits_per_block, shift_ub, bitarr, r1, r2, r3, only_transitions,
                 static_shift_ub, sarr, th>>

\* r1.common(bitarr): the assert of line 409, then the result in call.b
LenCommon ==
  /\ call.op = "none"
  /\ IF r1.m_num_bits = bitarr.m_num_bits
       THEN /\ call' = [op |-> "common", n |-> 0, b |-> common(r1, bitarr)]
            /\ aborted' = FALSE
       ELSE /\ call' = [op |-> "common", n |-> 0, b |-> -1]
            /\ aborted' = TRUE
  /\ UNCHANGED <<bits_per_block, shift_ub, bitarr, r1, r2, r3, only_transitions,
                 static_shift_ub, sarr, th>>

\* a derivation, comparison or combination of r1 with bitarr
LenCall ==
  \/ \E n \in 0 .. size(r1) : LenRotate(n)
  \/ \E dt \in 0 .. bits_per_block : LenLeftMask(dt)
  \/ \E dt \in 0 .. bits_per_block : LenRightMask(dt)
  \/ LenEqual
  \/ LenCommon

InitLen ==
  /\ bits_per_block \in OpsWidths
  /\ shift_ub \in ShiftOutcomes
  /\ \E num_bits \in 1 .. MaxLenBits :
       \E ones \in SUBSET (0 .. num_bits - 1) : bitarr = Filled(num_bits, ones)
  /\ \E num_bits \in 1 .. MaxLenBits :
       /\ \E ones \in SUBSET (0 .. num_bits - 1) : r1 = Filled(num_bits, ones)
       /\ r2 = BitArray(num_bits)
       /\ r3 = BitArray(num_bits)
  /\ call = NoCall
  /\ only_transitions = TRUE
  /\ InitRest

NextLen ==
  \/ \E pos \in 0 .. size(r1) - 1 : LenSet(pos)
  \/ \E pos \in 0 .. size(r1) - 1 : LenClear(pos)
  \/ LenReset
  \/ LenCall

SpecLen == InitLen /\ [][NextLen]_vars

----------------------------------------------------------------------------
(* SpecSteps and SpecConc: rotate and the masks step by step.  A call runs  *)
(* on a thread, thread t writes its own destination (r1 for thread 1, r2   *)
(* for thread 2) and every call reads the one source bitarr.  A step is    *)
(* one pass of the loop of rotate, one shift of the working buffer of a    *)
(* mask or one or-ing of it into the destination; the locals of a call     *)
(* (th[t]) belong to its thread.                                           *)

\* the destination of the call of thread t
Dest(t) == IF t = 1 THEN r1 ELSE r2

\* a slip: every thread writes the destination of thread 1
WriteDestShared(t, array) ==
  /\ r1' = array
  /\ r2' = r2

\* thread t writes its destination
WriteDest(t, array) ==
  /\ r1' = IF t = 1 THEN array ELSE r1
  /\ r2' = IF t = 2 THEN array ELSE r2

\* Dest(t).rotate(bitarr, n) up to the first test of the loop condition
\* (lines 422-441): the asserts hold, the arrays have one length
CallRotate(t, n) ==
  LET n1    == IF n >= Dest(t).m_num_bits THEN n % Dest(t).m_num_bits ELSE n
      start == RotateStart(Dest(t), n1)
  IN /\ th[t].pc = "idle"
     /\ th' = [th EXCEPT ![t] =
                 [@ EXCEPT !.pc = IF n1 = 0 THEN "copy" ELSE "loop",
                           !.op = "rotate",
                           !.n = n,
                           !.start_blk_pos = IF n1 = 0 THEN @ ELSE start.iblk_pos,
                           !.start_bit_pos = IF n1 = 0 THEN @ ELSE start.ibit_pos,
                           !.last_bits = IF n1 = 0 THEN @
                                         ELSE Dest(t).m_num_bits % bits_per_block,
                           !.st = IF n1 = 0 THEN @ ELSE start]]
     /\ UNCHANGED <<bits_per_block, shift_ub, bitarr, r1, r2, r3, call,
                    only_transitions, static_shift_ub, sarr, aborted>>

\* *this = other; return;  (lines 428-433)
RotateCopy(t) ==
  /\ th[t].pc = "copy"
  /\ WriteDest(t, bitarr)
  /\ th' = [th EXCEPT ![t].pc = "done"]
  /\ UNCHANGED <<bits_per_block, shift_ub, bitarr, r3, call,
                 only_transitions, static_shift_ub, sarr, aborted>>

\* one pass of while (opos < num_blocks()) (lines 443-529)
RotateStep(t) ==
  LET st1 == RotateLoopBody(bitarr, th[t].start_blk_pos, th[t].start_bit_pos,
                            th[t].last_bits, th[t].st)
  IN /\ th[t].pc = "loop"
     /\ WriteDest(t, [Dest(t) EXCEPT !.m_bits = st1.m_bits])
     /\ th' = [th EXCEPT ![t] =
                 [@ EXCEPT !.st = st1,
                           !.pc = IF st1.threw THEN "threw"
                                  ELSE IF st1.opos < num_blocks(Dest(t)) THEN "loop"
                                  ELSE "done"]]
     /\ UNCHANGED <<bits_per_block, shift_ub, bitarr, r3, call,
                    only_transitions, static_shift_ub, sarr, aborted>>

\* the call of a mask: the parameter other is passed by value, a copy of
\* the source (lines 556, 592)
CallMask(t, op, dt) ==
  /\ th[t].pc = "idle"
  /\ th' = [th EXCEPT ![t] =
              [@ EXCEPT !.pc = "assign", !.op = op, !.n = dt, !.other = bitarr]]
  /\ UNCHANGED <<bits_per_block, shift_ub, bitarr, r1, r2, r3, call,
                 only_transitions, static_shift_ub, sarr, aborted>>

\* m_bits, m_num_bits and m_bitset_capacity from other, the test of dt and
\* the copy of other.m_bits into the working buffer (lines 558-564, 594-601)
MaskAssign(t) ==
  /\ th[t].pc = "assign"
  /\ WriteDest(t, [Dest(t) EXCEPT !.m_bits = th[t].other.m_bits,
                                  !.m_num_bits = th[t].other.m_num_bits,
                                  !.m_bitset_capacity = th[t].other.m_bitset_capacity])
  /\ th' = [th EXCEPT ![t] =
              IF (th[t].n > 0) /\ (th[t].n < bits_per_block)
                THEN [@ EXCEPT !.pc = "shift", !.lbits = th[t].other.m_bits, !.ir = 0]
                ELSE [@ EXCEPT !.pc = "done"]]
  /\ UNCHANGED <<bits_per_block, shift_ub, bitarr, r3, call,
                 only_transitions, static_shift_ub, sarr, aborted>>

\* the shift of the working buffer by one bit (lines 573-578, 610-615)
MaskShift(t) ==
  /\ th[t].pc = "shift"
  /\ th' = [th EXCEPT ![t] =
              [@ EXCEPT !.pc = "or",
                        !.lbits = IF th[t].op = "left"
                                    THEN ShiftLeftLoop(th[t].lbits)
                                    ELSE ShiftRightLoop(th[t].lbits)]]
  /\ UNCHANGED <<bits_per_block, shift_ub, bitarr, r1, r2, r3, call,
                 only_transitions, static_shift_ub, sarr, aborted>>

\* m_bits[i] |= b[i] for every block, ir++ and the test ir < dt
\* (lines 580-583, 617-620)
MaskOr(t) ==
  /\ th[t].pc = "or"
  /\ WriteDest(t, [Dest(t) EXCEPT !.m_bits =
                     [i \in DOMAIN Dest(t).m_bits |->
                        Dest(t).m_bits[i] \cup th[t].lbits[i]]])
  /\ th' = [th EXCEPT ![t] =
              [@ EXCEPT !.ir = @ + 1,
                        !.pc = IF th[t].ir + 1 < th[t].n THEN "shift" ELSE "recount"]]
  /\ UNCHANGED <<bits_per_block, shift_ub, bitarr, r3, call,
                 only_transitions, static_shift_ub, sarr, aborted>>

\* m_count = recount()  (lines 586, 623)
MaskRecount(t) ==
  /\ th[t].pc = "recount"
  /\ WriteDest(t, [Dest(t) EXCEPT !.m_count = recount(Dest(t))])
  /\ th' = [th EXCEPT ![t].pc = "done"]
  /\ UNCHANGED <<bits_per_block, shift_ub, bitarr, r3, call,
                 only_transitions, static_shift_ub, sarr, aborted>>

\* SpecSteps: one call, on thread 1
InitSteps == InitArrays(OpsWidths, MaxBits) /\ InitRest

NextSteps ==
  \/ \E n \in 0 .. size(bitarr) + 1 : CallRotate(1, n)
  \/ RotateCopy(1)
  \/ RotateStep(1)
  \/ \E dt \in 0 .. bits_per_block : CallMask(1, "left", dt)
  \/ \E dt \in 0 .. bits_per_block : CallMask(1, "right", dt)
  \/ MaskAssign(1)
  \/ MaskShift(1)
  \/ MaskOr(1)
  \/ MaskRecount(1)

SpecSteps == InitSteps /\ [][NextSteps]_vars

\* SpecConc: two calls, one per thread, their steps in any order
InitConc == InitArrays(OpsWidths, MaxConcBits) /\ InitRest

NextConc ==
  \E t \in Threads :
    \/ \E n \in 0 .. size(bitarr) - 1 : CallRotate(t, n)
    \/ RotateCopy(t)
    \/ RotateStep(t)
    \/ \E dt \in 1 .. bits_per_block - 1 : CallMask(t, "left", dt)
    \/ \E dt \in 1 .. bits_per_block - 1 : CallMask(t, "right", dt)
    \/ MaskAssign(t)
    \/ MaskShift(t)
    \/ MaskOr(t)
    \/ MaskRecount(t)

SpecConc == InitConc /\ [][NextConc]_vars

----------------------------------------------------------------------------
(* SpecCompose: a neighbour mask of bitarr into the fresh array r1, then   *)
(* the blockwise rotate of r1 into the fresh array r2 and the elementwise  *)
(* rotate of r1 into the fresh array r3                                    *)

\* r1.createLeftNeighbourMask(bitarr, dt) or
\* r1.createRightNeighbourMask(bitarr, dt), r1 fresh
ComposeMask(op, dt) ==
  /\ call.op = "none"
  /\ r1' = IF op = "left" THEN createLeftNeighbourMask(r1, bitarr, dt)
                          ELSE createRightNeighbourMask(r1, bitarr, dt)
  /\ call' = [op |-> op, n |-> dt, b |-> -1]
  /\ UNCHANGED <<bits_per_block, shift_ub, bitarr, r2, r3, only_transitions,
                 static_shift_ub, sarr, th, aborted>>

\* r2.rotate(r1, n) and r3.rotateRight(r1, n), r2 and r3 fresh
ComposeRotate(n) ==
  /\ call.op \in {"left", "right"}
  /\ call.b = -1
  /\ r2' = rotate(BitArray(size(r1)), r1, n)
  /\ r3' = rotateRight(BitArray(size(r1)), r1, n)
  /\ call' = [call EXCEPT !.b = n]
  /\ UNCHANGED <<bits_per_block, shift_ub, bitarr, r1, only_transitions,
                 static_shift_ub, sarr, th, aborted>>

InitCompose == InitArrays(BlockWidths, MaxBits) /\ InitRest

NextCompose ==
  \/ \E dt \in 1 .. bits_per_block - 1 : ComposeMask("left", dt)
  \/ \E dt \in 1 .. bits_per_block - 1 : ComposeMask("right", dt)
  \/ \E n \in 0 .. size(bitarr) - 1 : ComposeRotate(n)

SpecCompose == InitCompose /\ [][NextCompose]_vars

----------------------------------------------------------------------------
(* Properties *)

\* the index of the bit at offset off of block blk
BitPos(blk, off) == blk * bits_per_block + off

\* the padding invariant: no one bit at an index >= m_num_bits
PaddingZero(self) ==
  \A blk \in DOMAIN self.m_bits :
    \A off \in self.m_bits[blk] : BitPos(blk, off) < self.m_num_bits

\* the indices below m_num_bits whose bit is one
Ones(self) == {i \in 0 .. self.m_num_bits - 1 : at(self, i) = 1}

\* C1: after the blockwise rotate of a zero-padded source by n < length,
\* bit i of the destination is bit (i + length - n) mod length of the source
\* for every i < length, and the destination has the blocks the elementwise
\* rotateRight yields.
C1_RotateIsElementwise ==
  (call.op = "rotate" /\ call.n < size(bitarr) /\ PaddingZero(bitarr)) =>
    /\ \A i \in 0 .. size(bitarr) - 1 :
         at(r1, i) = at(bitarr, (i + size(bitarr) - call.n) % size(bitarr))
    /\ r1.m_bits = r2.m_bits

\* a rotate by 5 of an 8 bit array in two 4 bit blocks (the length a multiple
\* of the width), ones in both blocks
C1_Witness ==
  /\ call.op = "rotate" /\ call.n = 5
  /\ bits_per_block = 4 /\ size(bitarr) = 8
  /\ Ones(bitarr) = {0, 3, 6}
  /\ Ones(r1) = {3, 5, 0}

\* C3: after a blockwise rotate (any n) of a zero-padded source, the
\* destination has no one bit at an index >= length.
C3_RotatePadding ==
  /\ (call.op = "rotate" /\ PaddingZero(bitarr)) => PaddingZero(r1)
  /\ (call.op = "rotate" /\ call.b >= 0 /\ PaddingZero(r1)) => PaddingZero(r3)

\* a 9 bit array in three 4 bit blocks with its last bit set, rotated by 1:
\* the bit moves to index 0
C3_Witness ==
  /\ call.op = "rotate" /\ call.n = 1
  /\ bits_per_block = 4 /\ size(bitarr) = 9
  /\ 8 \in Ones(bitarr)
  /\ 0 \in Ones(r1)
  /\ r1.m_bits[2] \subseteq {0}

\* C7: a rotate by b of a rotate by a has the blocks of a rotate by
\* (a + b) mod length, for a and b from 0 to beyond the length, and a rotate
\* by 0 has the blocks of its source.
C7_RotateComposes ==
  /\ (call.op = "rotate" /\ call.b >= 0) =>
       r3.m_bits =
         rotate(BitArray(size(bitarr)), bitarr,
                (call.n + call.b) % size(bitarr)).m_bits
  /\ (call.op = "rotate" /\ call.n = 0) => r1.m_bits = bitarr.m_bits

\* a = 10 and b = 9 on a 9 bit array: both are reduced, the sum is a rotate by 1
C7_Witness ==
  /\ call.op = "rotate" /\ call.n = 10 /\ call.b = 9
  /\ size(bitarr) = 9 /\ bits_per_block = 4
  /\ Ones(bitarr) = {2, 8}
  /\ Ones(r3) = {3, 0}

\* the call that produced r1 is a neighbour mask with a distance in range
MaskInRange == call.op \in {"left", "right"} /\ call.n > 0 /\ call.n < bits_per_block

\* C2: for 0 < dt < width, bit i < length of the left mask is one iff the
\* source has a one at some i-k >= 0, k in 0 .. dt, and bit i of the right
\* mask iff the source has a one at some i+k < length, also across blocks.
C2_MaskDefinition ==
  MaskInRange =>
    \A i \in 0 .. size(bitarr) - 1 :
      (at(r1, i) = 1) <=>
        \E k \in 0 .. call.n :
          LET j == IF call.op = "left" THEN i - k ELSE i + k
          IN j \in 0 .. size(bitarr) - 1 /\ at(bitarr, j) = 1

\* C4: after a neighbour mask (any dt) of a zero-padded source, the
\* destination has no one bit at an index >= length.
C4_MaskPadding ==
  (call.op \in {"left", "right"} /\ PaddingZero(bitarr)) => PaddingZero(r1)

\* C5 as stated: of an 8 bit array with only bit 4 set, the right mask at
\* distance 2 has exactly the bits {4,5,6} and the left mask exactly {2,3,4}.
C5_Scenario ==
  (size(bitarr) = 8 /\ Ones(bitarr) = {4} /\ call.n = 2) =>
    /\ call.op = "right" => Ones(r1) = {4, 5, 6}
    /\ call.op = "left" => Ones(r1) = {2, 3, 4}

\* C5 amended: of an 8 bit array with only bit 4 set, the right mask at
\* distance 2 has exactly the bits {2,3,4} and the left mask exactly {4,5,6}.
C5_ScenarioAmended ==
  (size(bitarr) = 8 /\ Ones(bitarr) = {4} /\ call.n = 2) =>
    /\ call.op = "right" => Ones(r1) = {2, 3, 4}
    /\ call.op = "left" => Ones(r1) = {4, 5, 6}

C5_Witness ==
  /\ size(bitarr) = 8 /\ Ones(bitarr) = {4}
  /\ call.op = "right" /\ call.n = 2
  /\ r1.m_bits[0] = {2, 3, 4}

\* the array of the length of bitarr with the single bit pos set
Single(pos) == Filled(size(bitarr), {pos})

\* C6 as stated: B has its single bit at p, A at p + Dt < length,
\* 0 < Dt < width: A has 1 bit in common with the right mask of B at
\* distance Dt and 0 bits with the one at distance Dt - 1.  (r1 is the mask at
\* distance call.n: the first for Dt = call.n, the second for Dt = call.n + 1.)
C6_RightMaskReaches ==
  \A p \in 0 .. size(bitarr) - 1 :
    (Ones(bitarr) = {p} /\ call.op = "right") =>
      /\ (call.n > 0 /\ call.n < bits_per_block /\ p + call.n < size(bitarr)) =>
           common(Single(p + call.n), r1) = 1
      /\ (call.n >= 0 /\ call.n + 1 < bits_per_block /\ p + call.n + 1 < size(bitarr)) =>
           common(Single(p + call.n + 1), r1) = 0

\* C6 amended: A has 0 bits in common with the right mask of B at distance
\* Dt, and 0 bits with the one at distance Dt - 1.
C6_RightMaskMisses ==
  \A p \in 0 .. size(bitarr) - 1 :
    (Ones(bitarr) = {p} /\ call.op = "right") =>
      /\ (call.n > 0 /\ call.n < bits_per_block /\ p + call.n < size(bitarr)) =>
           common(Single(p + call.n), r1) = 0
      /\ (call.n >= 0 /\ call.n + 1 < bits_per_block /\ p + call.n + 1 < size(bitarr)) =>
           common(Single(p + call.n + 1), r1) = 0

\* B = {4}, Dt = 3, length 9: the right mask is {1,2,3,4}, A = {7}
C6_Witness ==
  /\ size(bitarr) = 9 /\ Ones(bitarr) = {4}
  /\ call.op = "right" /\ call.n = 3
  /\ Ones(r1) = {1, 2, 3, 4}
  /\ common(Single(7), r1) = 0

\* C8: for dt <= 0 and for dt >= width, both masks leave the destination
\* with exactly the blocks of the source.
C8_OutOfRangeCopies ==
  (call.op \in {"left", "right"} /\ (call.n <= 0 \/ call.n >= bits_per_block)) =>
    r1.m_bits = bitarr.m_bits

\* dt = width on a source with ones in both blocks
C8_Witness ==
  /\ call.op = "left" /\ call.n = bits_per_block
  /\ size(bitarr) = 9 /\ Ones(bitarr) = {0, 8}
  /\ r1.m_bits = bitarr.m_bits

\* C9: operator== on two arrays of one length, each reached by public
\* operations from a fresh array, is true iff the arrays agree at every
\* index below the length.  (r1 is reached by the operations of SpecOps,
\* bitarr by set alone.)
C9_EqualIffSameBits ==
  Equal(r1, bitarr) <=>
    \A i \in 0 .. size(bitarr) - 1 : at(r1, i) = at(bitarr, i)

\* C10: as long as the array has seen only reset, set of a zero bit and
\* clear of a one bit, count() is recount().
C10_CountIsRecount ==
  only_transitions => count(r1) = recount(r1)

\* a 5 bit array in two blocks after calls of set and clear that left the
\* bits 0, 3 and 4 set
C10_Witness ==
  /\ only_transitions
  /\ size(r1) = 5
  /\ Ones(r1) = {0, 3, 4}
  /\ count(r1) = 3

\* C11: for every array S of the program (the source, the result of the
\* blockwise rotate, of the elementwise one and of the second rotate),
\* common(S, S) equals count(S).
C11_CommonSelfIsCount ==
  \A S \in {bitarr, r1, r2, r3} : common(S, S) = count(S)

\* C18: after a neighbour mask with 0 < dt < width, count() of the
\* destination is the number of indices below the length whose bit is one.
C18_MaskCountInRange ==
  MaskInRange => count(r1) = Cardinality(Ones(r1))

\* C12: every call of rotate, createLeftNeighbourMask,
\* createRightNeighbourMask, operator== and common of a checked build whose
\* two operands differ in length fails an assert.
C12_MismatchAsserts ==
  [][(size(r1) # size(bitarr) /\ LenCall) => aborted']_vars

\* C13: no step of the public operations changes size() or num_blocks().
C13_LengthIsFixed ==
  [][size(r1') = size(r1) /\ num_blocks(r1') = num_blocks(r1)]_vars

\* C14: after every step of the same calls of set, clear, reset, rotate and
\* the two masks, the BitArray of length N and the StaticBitArray<N> hold the
\* same blocks and the same cached count (and no call has failed).
C14_StaticEqualsGrowable ==
  /\ r1.m_bits = sarr.m_bits
  /\ r1.m_count = sarr.m_count
  /\ ~aborted

\* both arrays after a rotate into the empty arrays (the cached count is
\* still 0) of a 5 bit source in two blocks
C14_Witness ==
  /\ size(r1) = 5 /\ sarr.num_of_bits = 5
  /\ sarr.m_bits[0] = {1} /\ sarr.m_bits[1] = {0}
  /\ sarr.m_count = 0
  /\ r1.m_bits = sarr.m_bits /\ r1.m_count = 0

\* C16 as stated: set(pos) adds 1 to the cached count and clear(pos)
\* subtracts 1, whatever bit pos was; a set of a one bit and a clear of a
\* zero bit leave every block as it was and leave count() different from
\* recount().
C16_BlindCountDiffers ==
  [][\A pos \in 0 .. size(r1) - 1 :
       /\ Set(pos) =>
            /\ count(r1') = count(r1) + 1
            /\ IsSet(r1, pos) =>
                 (r1'.m_bits = r1.m_bits /\ count(r1') # recount(r1'))
       /\ Clear(pos) =>
            /\ count(r1') = count(r1) - 1
            /\ ~IsSet(r1, pos) =>
                 (r1'.m_bits = r1.m_bits /\ count(r1') # recount(r1'))]_vars

\* C16 amended: the same, but count() differs from recount() after the call
\* when the two were equal before it.
C16_BlindCountDrifts ==
  [][\A pos \in 0 .. size(r1) - 1 :
       /\ Set(pos) =>
            /\ count(r1') = count(r1) + 1
            /\ IsSet(r1, pos) =>
                 /\ r1'.m_bits = r1.m_bits
                 /\ count(r1) = recount(r1) => count(r1') # recount(r1')
       /\ Clear(pos) =>
            /\ count(r1') = count(r1) - 1
            /\ ~IsSet(r1, pos) =>
                 /\ r1'.m_bits = r1.m_bits
                 /\ count(r1) = recount(r1) => count(r1') # recount(r1')]_vars

\* the source is empty, so the one of r1 comes from set: bit 0 was set twice
C16_Witness ==
  /\ Ones(bitarr) = {}
  /\ size(r1) = 5
  /\ Ones(r1) = {0}
  /\ count(r1) = 2
  /\ recount(r1) = 1
  /\ ~only_transitions

\* the array the call of thread t yields when it runs alone, from its call
\* to its return, on a fresh destination
Sequential(t) ==
  CASE th[t].op = "rotate" ->
         rotate(BitArray(size(bitarr)), bitarr, th[t].n)
    [] th[t].op = "left" ->
         createLeftNeighbourMask(BitArray(size(bitarr)), bitarr, th[t].n)
    [] th[t].op = "right" ->
         createRightNeighbourMask(BitArray(size(bitarr)), bitarr, th[t].n)

\* C15: two calls of rotate or of a mask on two threads, one source and two
\* destinations, their steps in any order: no step changes the source, and a
\* call that has returned has left its destination the blocks the call
\* yields when it runs alone.
C15_ConcurrentAsSequential ==
  /\ [](\A t \in Threads :
          th[t].pc = "done" => Dest(t).m_bits = Sequential(t).m_bits)
  /\ [][bitarr' = bitarr]_vars

\* a rotate by 2 on thread 1 and a left mask at distance 2 on thread 2, of a
\* 5 bit source in two blocks, both returned
C15_Witness ==
  /\ th[1].pc = "done" /\ th[1].op = "rotate" /\ th[1].n = 2
  /\ th[2].pc = "done" /\ th[2].op = "left" /\ th[2].n = 2
  /\ size(bitarr) = 5 /\ Ones(bitarr) = {0, 3}
  /\ Ones(r1) = {2, 0}
  /\ r2.m_bits[0] = {0, 1, 2, 3}

\* the indices of the one bits of the buffer b, padding included
BufferOnes(b) ==
  UNION {{BitPos(blk, off) : off \in b[blk]} : blk \in DOMAIN b}

\* C17: a one-bit shift step of a mask moves every bit of the working buffer
\* to the adjacent index, all bits the same way, also from one block into the
\* next; the bit moved past the end of the buffer is dropped and nothing
\* enters at the other end or from another block.
C17_ShiftStepIsLinear ==
  [][MaskShift(1) =>
       LET old == BufferOnes(th[1].lbits)
           new == BufferOnes(th'[1].lbits)
           all == 0 .. Cardinality(DOMAIN th[1].lbits) * bits_per_block - 1
       IN \/ new = {i + 1 : i \in old} \cap all
          \/ new = {i - 1 : i \in old} \cap all]_vars

\* thread 1 is in, or has left, the loop of a rotate
InRotateLoop ==
  /\ th[1].op = "rotate"
  /\ th[1].n % size(bitarr) # 0
  /\ th[1].pc \in {"loop", "done", "threw"}

\* C19: for every length, source and n, at every test of the loop condition
\* of rotate no write has been out of range, the assert has held, the source
\* cursor is a block index and opos is at most num_blocks; a pass writes the
\* block opos, or the blocks opos and opos + 1, no other, and advances opos
\* past them, so the loop is left after at most num_blocks passes; it is
\* left with opos = num_blocks.
C19_RotateLoopWritesInOrder ==
  /\ [](InRotateLoop =>
          /\ ~th[1].st.threw
          /\ th[1].st.asserted
          /\ th[1].st.iblk_pos \in 0 .. num_blocks(r1) - 1
          /\ th[1].st.opos <= num_blocks(r1)
          /\ th[1].pc = "done" => th[1].st.opos = num_blocks(r1)
          /\ th[1].pc # "threw")
  /\ [][RotateStep(1) =>
          /\ th'[1].st.opos \in {th[1].st.opos + 1, th[1].st.opos + 2}
          /\ \A i \in DOMAIN r1.m_bits :
               i \notin th[1].st.opos .. th'[1].st.opos - 1 =>
                 r1'.m_bits[i] = r1.m_bits[i]]_vars

\* a rotate of a 9 bit array in three blocks has returned; its closing
\* branch went through the assert
C19_Witness ==
  /\ InRotateLoop
  /\ th[1].pc = "done"
  /\ size(bitarr) = 9
  /\ th[1].st.opos = 3
  /\ th[1].st.assert_reached
  /\ th[1].st.asserted

C21_RotateKeepsStaleCount ==
  [][\A n \in 0 .. size(r1) :
       (size(r1) = size(bitarr) /\ LenRotate(n)) =>
         /\ bitarr' = bitarr
         /\ ~aborted'
         /\ n % size(r1) # 0 =>
              /\ r1'.m_count = r1.m_count
              /\ r1'.m_num_bits = r1.m_num_bits
              /\ r1'.m_bitset_capacity = r1.m_bitset_capacity
         /\ n % size(r1) = 0 => r1'.m_count = bitarr.m_count]_vars

\* a rotate by n mod length # 0 has returned; the count it left in r1 is
\* neither the number of one bits of r1 nor the count of its source
C21_Witness ==
  /\ call.op = "rotate"
  /\ ~aborted
  /\ size(r1) = size(bitarr)
  /\ call.n % size(r1) # 0
  /\ r1.m_count # recount(r1)
  /\ r1.m_count # bitarr.m_count
  /\ r1.m_count > 0

\* C22: for every zero-padded source, every dt with 0 < dt < bits_per_block
\* and every n in 0 .. length - 1, the blockwise rotate by n of the left or
\* right neighbour mask has, at the indices below the length, the one bits
\* of the elementwise rotate by n of that mask.
C22_RotateOfMaskIsElementwise ==
  (call.op \in {"left", "right"} /\ call.b >= 0 /\ PaddingZero(bitarr)) =>
    Ones(r2) = Ones(r3)

====
